---- MODULE Spec2Model ----
(***************************************************************************)
(* Model of pkg/services/sqlstore/permissions (dashboard permission        *)
(* filter): the access-control filter compiles a user's grants into a      *)
(* WHERE clause and, with nested folders, a WITH RECURSIVE preamble.       *)
(*                                                                         *)
(* SQL text is a sequence of tokens: every string literal the code writes  *)
(* is cut at its '?' characters, so that a positional placeholder is the   *)
(* token "?" and the text itself is the concatenation of the tokens.       *)
(* Query parameters ([]interface{}) are tagged values.                     *)
(***************************************************************************)
EXTENDS Integers, Sequences, FiniteSets, TLC

\* maximum possible capacity for recursive queries array
maximumRecursiveQueries == 2

VARIABLES permission, folder, f, heap, out, atc

vars == <<permission, folder, f, heap, out, atc>>

-----------------------------------------------------------------------------
(* Bounds of the model *)

\* rows of the permission table in an initial state (fixed hierarchy)
MaxGrants == 2
\* rows of the permission table in an initial state (varying hierarchy)
MaxSeedGrants == 1
\* length of the action list handed to actionsToCheck on its own
MaxActions == 2
\* granted scopes per action handed to actionsToCheck on its own
MaxScopes == 2

-----------------------------------------------------------------------------
(* Values bound to placeholders: Go interface{} holding a string or an int *)

StrV(s) == [k |-> "str", s |-> s, n |-> 0]
IntV(n) == [k |-> "int", s |-> "", n |-> n]
\* the zero value of interface{} in a freshly made array
NilV == [k |-> "nil", s |-> "", n |-> 0]

Ph == "?"

RECURSIVE Repeat(_, _)
Repeat(s, n) == IF n <= 0 THEN <<>> ELSE s \o Repeat(s, n - 1)

RECURSIVE CountPh(_)
CountPh(text) ==
    IF text = <<>> THEN 0
    ELSE (IF Head(text) = Ph THEN 1 ELSE 0) + CountPh(Tail(text))

-----------------------------------------------------------------------------
(* Actions and scopes *)

ActionFoldersRead == "folders:read"
ActionDashboardsCreate == "dashboards:create"
ActionDashboardsRead == "dashboards:read"
ActionDashboardsWrite == "dashboards:write"
ActionAlertingRuleRead == "alert.rules:read"
ActionAlertingRuleCreate == "alert.rules:create"

Actions == {ActionFoldersRead, ActionDashboardsCreate, ActionDashboardsRead,
            ActionDashboardsWrite, ActionAlertingRuleRead, ActionAlertingRuleCreate}

ScopeDashboardsPrefix == "dashboards:uid:"
ScopeFoldersPrefix == "folders:uid:"

\* a scope string is prefix \o id; kept split so that LIKE and substr apply
Scope(prefix, id) == [prefix |-> prefix, id |-> id]
ScopeString(sc) == sc.prefix \o sc.id

\* accesscontrol.WildcardsFromPrefix: "*", and one "<parts>:*" per prefix part
WildcardsFromPrefix(prefix) ==
    IF prefix = ScopeDashboardsPrefix
    THEN <<"*", "dashboards:*", "dashboards:uid:*">>
    ELSE <<"*", "folders:*", "folders:uid:*">>

\* Wildcards.Contains: the scope is one of the wildcards
Contains(w, scope) == \E i \in 1..Len(w) : w[i] = scope

-----------------------------------------------------------------------------
(* actionsToCheck: permissions maps an action to its granted scope strings *)

RECURSIVE AnyWildcardContains(_, _)
AnyWildcardContains(wildcards, scope) ==
    IF wildcards = <<>> THEN FALSE
    ELSE IF Contains(Head(wildcards), scope) THEN TRUE
    ELSE AnyWildcardContains(Tail(wildcards), scope)

RECURSIVE HasWildcard(_, _)
HasWildcard(scopes, wildcards) ==
    IF scopes = <<>> THEN FALSE
    ELSE IF AnyWildcardContains(wildcards, Head(scopes)) THEN TRUE
    ELSE HasWildcard(Tail(scopes), wildcards)

\* a missing key of a Go map reads as the nil slice
MapGet(permissions, a) ==
    IF a \in DOMAIN permissions THEN permissions[a] ELSE <<>>

RECURSIVE actionsToCheckBug(_, _, _)
actionsToCheckBug(actions, permissions, wildcards) ==
    IF actions = <<>> THEN <<>>
    ELSE LET a == Head(actions)
             scopes == MapGet(permissions, a)
             first == IF scopes = <<>> THEN <<>> ELSE <<Head(scopes)>>
             rest == actionsToCheckBug(Tail(actions), permissions, wildcards)
         IN IF HasWildcard(first, wildcards) THEN rest ELSE <<StrV(a)>> \o rest

RECURSIVE actionsToCheck(_, _, _)
actionsToCheck(actions, permissions, wildcards) ==
    IF actions = <<>> THEN <<>>
    ELSE LET a == Head(actions)
             rest == actionsToCheck(Tail(actions), permissions, wildcards)
         IN IF HasWildcard(MapGet(permissions, a), wildcards)
            THEN rest
            ELSE <<StrV(a)>> \o rest

-----------------------------------------------------------------------------
(* The user context and the tables the emitted SQL reads *)

\* identifiers of the rows: one user in one organization, one team, and the
\* role assigned to each; a second organization owns folders of its own
Ids == [org |-> 1, otherOrg |-> 2, user |-> 1, team |-> 10,
        directRole |-> 1, teamRole |-> 2]
OrgID == Ids.org
OtherOrgID == Ids.otherOrg
UserID == Ids.user
TeamID == Ids.team
DirectRole == Ids.directRole
TeamRole == Ids.teamRole
Roles == {DirectRole, TeamRole}

user_role == {[user_id |-> UserID, org_id |-> OrgID, role_id |-> DirectRole]}
team_role == {[team_id |-> TeamID, org_id |-> OrgID, role_id |-> TeamRole]}

\* *user.SignedInUser as the filter reads it
User(isNil, hasPermissions, hasOrgEntry, teams) ==
    [isNil |-> isNil, OrgID |-> OrgID, UserID |-> UserID, Teams |-> teams,
     hasPermissions |-> hasPermissions, hasOrgEntry |-> hasOrgEntry]

Users == {User(TRUE, FALSE, FALSE, <<>>),
          User(FALSE, FALSE, FALSE, <<>>),
          User(FALSE, TRUE, FALSE, <<>>),
          User(FALSE, TRUE, TRUE, <<>>),
          User(FALSE, TRUE, TRUE, <<TeamID>>)}

SeqToSet(s) == {s[i] : i \in 1..Len(s)}

\* role ids of the user: assigned directly or through one of the teams
ApplicableRoles(userID, orgID, teamIDs) ==
    {r.role_id : r \in {x \in user_role : x.user_id = userID /\ x.org_id = orgID}}
    \cup {r.role_id : r \in {x \in team_role : x.team_id \in teamIDs /\ x.org_id = orgID}}

FolderUIDs == {"A", "B", "C"}
DashboardUIDs == {"d1", "d2"}

\* the scope strings in the order the permission index lists them
ScopeOrder ==
    <<Scope("", "*"), Scope("dashboards:", "*"), Scope("folders:", "*"),
      Scope(ScopeDashboardsPrefix, "*"), Scope(ScopeFoldersPrefix, "*"),
      Scope(ScopeDashboardsPrefix, "d1"), Scope(ScopeDashboardsPrefix, "d2"),
      Scope(ScopeFoldersPrefix, "A"), Scope(ScopeFoldersPrefix, "B"),
      Scope(ScopeFoldersPrefix, "C")>>

RECURSIVE ScopeStringsOf(_, _)
ScopeStringsOf(order, scopes) ==
    IF order = <<>> THEN <<>>
    ELSE (IF Head(order) \in scopes THEN <<ScopeString(Head(order))>> ELSE <<>>)
         \o ScopeStringsOf(Tail(order), scopes)

\* user.Permissions[user.OrgID]: action -> scopes granted through the user's roles
PermissionIndex(u, perms) ==
    LET roles == ApplicableRoles(u.UserID, u.OrgID, SeqToSet(u.Teams))
        granted(a) == {p.scope : p \in {x \in perms : x.role_id \in roles /\ x.action = a}}
    IN [a \in {x.action : x \in {y \in perms : y.role_id \in roles}} |->
            ScopeStringsOf(ScopeOrder, granted(a))]

UserRoleSelect == "INNER JOIN (SELECT ur.role_id FROM user_role AS ur WHERE ur.user_id = "
UserRoleOrg == " AND ur.org_id = "
TeamRoleSelect == " UNION SELECT tr.role_id FROM team_role AS tr WHERE tr.team_id IN ("
TeamRoleOrg == ") AND tr.org_id = "
RolesJoinEnd == ") AS all_role ON role.id = all_role.role_id"

\* accesscontrol.UserRolesFilter: a join selecting the user's and teams' roles
UserRolesFilter(orgID, userID, teamIDs) ==
    [filter |->
        <<UserRoleSelect, Ph, UserRoleOrg, Ph>>
        \o (IF Len(teamIDs) > 0
            THEN <<TeamRoleSelect, Ph>> \o Repeat(<<", ", Ph>>, Len(teamIDs) - 1)
                 \o <<TeamRoleOrg, Ph>>
            ELSE <<>>)
        \o <<RolesJoinEnd>>,
     params |->
        <<IntV(userID), IntV(orgID)>>
        \o (IF Len(teamIDs) > 0
            THEN [i \in 1..Len(teamIDs) |-> IntV(teamIDs[i])] \o <<IntV(orgID)>>
            ELSE <<>>)]

-----------------------------------------------------------------------------
(* Go slices: a slice is a window on a backing array of the heap *)

NilSlice == [arr |-> 0, len |-> 0, cap |-> 0]

SliceVals(h, s) == IF s.len = 0 THEN <<>> ELSE SubSeq(h[s.arr], 1, s.len)

\* capacity of the array append allocates when the old one is too small
GrowCap(oldcap, need) == IF need > 2 * oldcap THEN need ELSE 2 * oldcap

\* append(s, vs...)
GoAppend(h, s, vs) ==
    LET need == s.len + Len(vs) IN
    IF vs = <<>> THEN [heap |-> h, slice |-> s]
    ELSE IF need <= s.cap
    THEN [heap |-> [h EXCEPT ![s.arr] =
                      [i \in 1..s.cap |->
                         IF i > s.len /\ i <= need THEN vs[i - s.len] ELSE @[i]]],
          slice |-> [s EXCEPT !.len = need]]
    ELSE LET newcap == GrowCap(s.cap, need)
             old == SliceVals(h, s)
             arr == [i \in 1..newcap |->
                       IF i <= s.len THEN old[i]
                       ELSE IF i <= need THEN vs[i - s.len] ELSE NilV]
         IN [heap |-> Append(h, arr),
             slice |-> [arr |-> Len(h) + 1, len |-> need, cap |-> newcap]]

\* a run of append calls on the same slice variable
RECURSIVE GoAppendAll(_, _, _)
GoAppendAll(h, s, calls) ==
    IF calls = <<>> THEN [heap |-> h, slice |-> s]
    ELSE LET r == GoAppend(h, s, Head(calls))
         IN GoAppendAll(r.heap, r.slice, Tail(calls))

RECURSIVE Flatten(_)
Flatten(ss) == IF ss = <<>> THEN <<>> ELSE Head(ss) \o Flatten(Tail(ss))

-----------------------------------------------------------------------------
(* The filter: NewAccessControlDashboardPermissionFilter and buildClauses *)

TypeFolder == "dash-folder"
TypeDashboard == "dash-db"
TypeAlertFolder == "dash-folder-alerting"
\* any other query type takes the last branch of the constructor
TypeMixed == ""
QueryTypes == {TypeDashboard, TypeFolder, TypeAlertFolder, TypeMixed}

PermissionLevels == [PERMISSION_VIEW |-> 1, PERMISSION_EDIT |-> 2, PERMISSION_ADMIN |-> 4]
PermissionTypes == {PermissionLevels.PERMISSION_VIEW, PermissionLevels.PERMISSION_EDIT,
                    PermissionLevels.PERMISSION_ADMIN}

folderActionsFor(queryType, needEdit) ==
    IF queryType = TypeFolder
    THEN <<ActionFoldersRead>> \o (IF needEdit THEN <<ActionDashboardsCreate>> ELSE <<>>)
    ELSE IF queryType = TypeDashboard
    THEN <<>>
    ELSE IF queryType = TypeAlertFolder
    THEN <<ActionFoldersRead, ActionAlertingRuleRead>>
         \o (IF needEdit THEN <<ActionAlertingRuleCreate>> ELSE <<>>)
    ELSE <<ActionFoldersRead>> \o (IF needEdit THEN <<ActionDashboardsCreate>> ELSE <<>>)

dashboardActionsFor(queryType, needEdit) ==
    IF queryType = TypeFolder
    THEN <<>>
    ELSE IF queryType = TypeDashboard
    THEN <<ActionDashboardsRead>> \o (IF needEdit THEN <<ActionDashboardsWrite>> ELSE <<>>)
    ELSE IF queryType = TypeAlertFolder
    THEN <<>>
    ELSE <<ActionDashboardsRead>> \o (IF needEdit THEN <<ActionDashboardsWrite>> ELSE <<>>)

\* f.user.Permissions[f.user.OrgID]; a nil map reads as empty
UserPermissions(u, perms) ==
    IF u.hasPermissions /\ u.hasOrgEntry THEN PermissionIndex(u, perms) ELSE <<>>

DenyAllBug(u) == u.isNil \/ ~u.hasPermissions

\* the guard of buildClauses
DenyAll(u) == u.isNil \/ ~u.hasPermissions \/ ~u.hasOrgEntry

DenyAllText == <<"(1 = 0)">>

rolesFilterText(filter) ==
    <<" AND role_id IN(SELECT id FROM role ">> \o filter \o <<") ">>

\* the action condition of a scope-membership subquery
ActionEquals == " AND action = "
ActionIn == " AND action IN ("
GroupHaving == ") GROUP BY role_id, scope HAVING COUNT(action) = "

ActionFilterTextBug(toCheck) ==
    IF Len(toCheck) = 1
    THEN <<ActionEquals, Ph>>
    ELSE <<ActionIn, Ph>> \o Repeat(<<", ", Ph>>, Len(toCheck))
         \o <<GroupHaving, Ph>>

ActionFilterText(toCheck) ==
    IF Len(toCheck) = 1
    THEN <<ActionEquals, Ph>>
    ELSE <<ActionIn, Ph>> \o Repeat(<<", ", Ph>>, Len(toCheck) - 1)
         \o <<GroupHaving, Ph>>

ActionFilterAppendsBug(toCheck) ==
    IF Len(toCheck) = 1 THEN << <<toCheck[1]>> >> ELSE <<toCheck>>

ActionFilterAppendsOne(toCheck) ==
    IF Len(toCheck) = 1
    THEN << <<toCheck[1]>> >>
    ELSE <<toCheck, <<IntV(1)>> >>

\* the append calls that bind the action condition's placeholders
ActionFilterAppends(toCheck) ==
    IF Len(toCheck) = 1
    THEN << <<toCheck[1]>> >>
    ELSE <<toCheck, <<IntV(Len(toCheck))>> >>

DashSelectHead ==
    "(dashboard.uid IN (SELECT substr(scope, 16) FROM permission WHERE scope LIKE 'dashboards:uid:%'"
InheritedSelectHeadBug ==
    "(dashboard.uid IN (SELECT substr(scope, 16) FROM permission WHERE scope LIKE 'dashboards:uid:%'"

InheritedSelectHead ==
    "(SELECT substr(scope, 13) FROM permission WHERE scope LIKE 'folders:uid:%' "
FolderSelectHead ==
    "(SELECT substr(scope, 13) FROM permission WHERE scope LIKE 'folders:uid:%'"
DashBranchEnd == ") AND NOT dashboard.is_folder)"
InheritedHead == "(dashboard.folder_id IN (SELECT id FROM dashboard as d "
FolderBranchHead == "(dashboard.uid IN "
FolderBranchEnd == " AND dashboard.is_folder)"

InheritedFrom == "WHERE d.uid IN (SELECT uid FROM "
FolderFrom == "(SELECT uid FROM "

RecQueryName(n) == "RecQry" \o ToString(n)

RecQueryBase == " AS ( SELECT uid, parent_uid, org_id FROM folder WHERE uid IN "
RecQueryStep == " UNION ALL SELECT f.uid, f.parent_uid, f.org_id FROM folder f INNER JOIN "
RecQueryJoin == " r ON f.parent_uid = r.uid and f.org_id = r.org_id )"

RecQueryText(queryName, whereUIDSelect) ==
    <<queryName, RecQueryBase>> \o whereUIDSelect \o <<RecQueryStep, queryName, RecQueryJoin>>

addRecQryBug(h, recQueries, queryName, whereUIDSelect, whereParams) ==
    [heap |-> h,
     recQueries |-> Append(recQueries,
        [string |-> RecQueryText(queryName, whereUIDSelect), params |-> whereParams])]

\* addRecQry: the parameters are copied into an array of their own
addRecQry(h, recQueries, queryName, whereUIDSelect, whereParams) ==
    LET c == [i \in 1..whereParams.len |-> h[whereParams.arr][i]]
        made == [arr |-> Len(h) + 1, len |-> whereParams.len, cap |-> whereParams.len]
    IN [heap |-> Append(h, c),
        recQueries |-> Append(recQueries,
           [string |-> RecQueryText(queryName, whereUIDSelect), params |-> made])]

\* the locals of buildClauses after the declarations
StartClauses ==
    [builder |-> <<"(">>, args |-> <<>>, permSelector |-> <<>>,
     permSelectorArgs |-> NilSlice, heap |-> <<>>, recQueries |-> <<>>]

\* the dashboard branch: if len(f.dashboardActions) > 0 { ... }
DashboardBranch(b, dashboardActions, permissions, rolesFilter, params, nested) ==
    IF Len(dashboardActions) = 0 THEN b
    ELSE
    LET toCheck == actionsToCheck(dashboardActions, permissions,
                       <<WildcardsFromPrefix(ScopeDashboardsPrefix),
                         WildcardsFromPrefix(ScopeFoldersPrefix)>>)
    IN IF Len(toCheck) = 0
       THEN [b EXCEPT !.builder = @ \o <<"NOT dashboard.is_folder">>]
       ELSE
       LET builder1 == b.builder \o <<DashSelectHead>> \o rolesFilter
                       \o ActionFilterText(toCheck)
                       \o <<DashBranchEnd, " OR ", InheritedHead>>
           args1 == b.args \o params \o Flatten(ActionFilterAppends(toCheck))
           permSelector1 == b.permSelector \o <<InheritedSelectHead>> \o rolesFilter
                            \o ActionFilterText(toCheck) \o <<")">>
           sel == GoAppendAll(b.heap, b.permSelectorArgs,
                              <<params>> \o ActionFilterAppends(toCheck))
       IN IF nested
          THEN LET recQueryName == RecQueryName(Len(b.recQueries))
                   r == addRecQry(sel.heap, b.recQueries, recQueryName,
                                  permSelector1, sel.slice)
               IN [builder |-> builder1
                        \o <<InheritedFrom, recQueryName, ")">>
                        \o <<DashBranchEnd>>,
                   args |-> args1,
                   permSelector |-> permSelector1,
                   permSelectorArgs |-> sel.slice,
                   heap |-> r.heap,
                   recQueries |-> r.recQueries]
          ELSE [builder |-> builder1 \o <<"WHERE d.uid IN ">> \o permSelector1
                        \o <<DashBranchEnd>>,
                args |-> args1 \o SliceVals(sel.heap, sel.slice),
                permSelector |-> permSelector1,
                permSelectorArgs |-> sel.slice,
                heap |-> sel.heap,
                recQueries |-> b.recQueries]

\* recycle and reuse: permSelector.Reset(); permSelectorArgs = permSelectorArgs[:0]
RecycleSelector(b) ==
    [b EXCEPT !.permSelector = <<>>, !.permSelectorArgs.len = 0]

\* the folder branch: if len(f.folderActions) > 0 { ... }
FolderBranch(b, dashboardActions, folderActions, permissions, rolesFilter, params, nested) ==
    IF Len(folderActions) = 0 THEN b
    ELSE
    LET builder0 == b.builder \o (IF Len(dashboardActions) > 0 THEN <<" OR ">> ELSE <<>>)
        toCheck == actionsToCheck(folderActions, permissions,
                       <<WildcardsFromPrefix(ScopeFoldersPrefix)>>)
    IN IF Len(toCheck) = 0
       THEN [b EXCEPT !.builder = builder0 \o <<"dashboard.is_folder">>]
       ELSE
       LET permSelector1 == b.permSelector \o <<FolderSelectHead>> \o rolesFilter
                            \o ActionFilterText(toCheck) \o <<")">>
           sel == GoAppendAll(b.heap, b.permSelectorArgs,
                              <<params>> \o ActionFilterAppends(toCheck))
       IN IF nested
          THEN LET recQueryName == RecQueryName(Len(b.recQueries))
                   r == addRecQry(sel.heap, b.recQueries, recQueryName,
                                  permSelector1, sel.slice)
               IN [builder |-> builder0 \o <<FolderBranchHead>>
                        \o <<FolderFrom, recQueryName, ")">>
                        \o <<FolderBranchEnd>>,
                   args |-> b.args,
                   permSelector |-> permSelector1,
                   permSelectorArgs |-> sel.slice,
                   heap |-> r.heap,
                   recQueries |-> r.recQueries]
          ELSE [builder |-> builder0 \o <<FolderBranchHead>> \o permSelector1
                        \o <<FolderBranchEnd>>,
                args |-> b.args \o SliceVals(sel.heap, sel.slice),
                permSelector |-> permSelector1,
                permSelectorArgs |-> sel.slice,
                heap |-> sel.heap,
                recQueries |-> b.recQueries]

\* buildClauses: the where clause, the recursive queries and the arrays they hold
buildClauses(u, dashboardActions, folderActions, nested, perms) ==
    IF DenyAll(u)
    THEN [where |-> [string |-> DenyAllText, params |-> <<>>],
          recQueries |-> <<>>, heap |-> <<>>]
    ELSE
    LET rf == UserRolesFilter(u.OrgID, u.UserID, u.Teams)
        rolesFilter == rolesFilterText(rf.filter)
        permissions == UserPermissions(u, perms)
        b1 == DashboardBranch(StartClauses, dashboardActions, permissions,
                              rolesFilter, rf.params, nested)
        b2 == RecycleSelector(b1)
        b3 == FolderBranch(b2, dashboardActions, folderActions, permissions,
                           rolesFilter, rf.params, nested)
    IN [where |-> [string |-> b3.builder \o <<")">>, params |-> b3.args],
        recQueries |-> b3.recQueries, heap |-> b3.heap]

-----------------------------------------------------------------------------
(* Where and With *)

RECURSIVE JoinRest(_, _)
JoinRest(h, rest) ==
    IF rest = <<>> THEN [string |-> <<>>, params |-> <<>>]
    ELSE LET r == JoinRest(h, Tail(rest))
         IN [string |-> <<",">> \o Head(rest).string \o r.string,
             params |-> SliceVals(h, Head(rest).params) \o r.params]

WithOfBug(h, recQueries) ==
    IF Len(recQueries) > 0
    THEN [string |-> <<"WITH RECURSIVE ">> \o recQueries[1].string,
          params |-> SliceVals(h, recQueries[1].params)]
    ELSE [string |-> <<>>, params |-> <<>>]

\* With(): the recursive queries joined by commas behind one WITH RECURSIVE
WithOf(h, recQueries) ==
    IF Len(recQueries) > 0
    THEN LET r == JoinRest(h, Tail(recQueries))
         IN [string |-> <<"WITH RECURSIVE ">> \o recQueries[1].string \o r.string,
             params |-> SliceVals(h, recQueries[1].params) \o r.params]
    ELSE [string |-> <<>>, params |-> <<>>]

\* Where(): the stored clause
WhereOf(filter) == [string |-> filter.where.string, params |-> filter.where.params]

-----------------------------------------------------------------------------
(* Initial states: the permission and folder tables *)

Grant(role, action, scope) == [role_id |-> role, action |-> action, scope |-> scope]

\* grants an initial permission table is drawn from
GrantUniverse ==
    {Grant(DirectRole, ActionDashboardsRead, Scope(ScopeDashboardsPrefix, "d1")),
     Grant(DirectRole, ActionDashboardsWrite, Scope(ScopeDashboardsPrefix, "d1")),
     Grant(TeamRole, ActionDashboardsWrite, Scope(ScopeDashboardsPrefix, "d1")),
     Grant(DirectRole, ActionDashboardsWrite, Scope(ScopeDashboardsPrefix, "d2")),
     Grant(DirectRole, ActionDashboardsRead, Scope(ScopeDashboardsPrefix, "*")),
     Grant(DirectRole, ActionDashboardsWrite, Scope(ScopeFoldersPrefix, "*")),
     Grant(DirectRole, ActionDashboardsRead, Scope(ScopeFoldersPrefix, "A")),
     Grant(DirectRole, ActionDashboardsWrite, Scope(ScopeFoldersPrefix, "A")),
     Grant(DirectRole, ActionFoldersRead, Scope(ScopeFoldersPrefix, "A")),
     Grant(DirectRole, ActionDashboardsCreate, Scope(ScopeFoldersPrefix, "A")),
     Grant(TeamRole, ActionDashboardsCreate, Scope(ScopeFoldersPrefix, "A")),
     Grant(DirectRole, ActionFoldersRead, Scope("", "*"))}

\* grants on single folders, the seeds of a closure
SeedGrantUniverse ==
    {Grant(DirectRole, ActionFoldersRead, Scope(ScopeFoldersPrefix, u)) : u \in FolderUIDs}

SubsetsUpTo(S, n) == {T \in SUBSET S : Cardinality(T) <= n}

\* a NULL parent_uid
NoParent == ""

FolderRow(uid, parent, org) == [uid |-> uid, parent_uid |-> parent, org_id |-> org]

RECURSIVE ReachesItself(_, _, _, _)
ReachesItself(parent, start, at, fuel) ==
    IF at = NoParent \/ fuel = 0 THEN FALSE
    ELSE IF parent[at] = start THEN TRUE
    ELSE ReachesItself(parent, start, parent[at], fuel - 1)

\* parent maps of the user's organization without a cycle
Hierarchies ==
    {parent \in [FolderUIDs -> FolderUIDs \cup {NoParent}] :
        \A u \in FolderUIDs : ~ReachesItself(parent, u, u, Cardinality(FolderUIDs))}

\* the other organization reuses the uid "B" and hangs a folder "D" under it
OtherOrgFolders ==
    {FolderRow("B", NoParent, OtherOrgID), FolderRow("D", "B", OtherOrgID)}

FoldersOf(parent) == {FolderRow(u, parent[u], OrgID) : u \in FolderUIDs}

\* C under B under A
Chain == [u \in FolderUIDs |-> IF u = "C" THEN "B" ELSE IF u = "B" THEN "A" ELSE NoParent]

NoFilter ==
    [built |-> FALSE, user |-> User(TRUE, FALSE, FALSE, <<>>),
     dashboardActions |-> <<>>, folderActions |-> <<>>, nested |-> FALSE,
     where |-> [string |-> <<>>, params |-> <<>>], recQueries |-> <<>>]

NoOut == [op |-> "none", string |-> <<>>, params |-> <<>>]

NoCall == [called |-> FALSE, actions |-> <<>>, permissions |-> <<>>,
           wildcards |-> <<>>, result |-> <<>>]

InitGrants ==
    /\ permission \in SubsetsUpTo(GrantUniverse, MaxGrants)
    /\ folder = FoldersOf(Chain) \cup OtherOrgFolders

InitHierarchy ==
    /\ permission \in SubsetsUpTo(SeedGrantUniverse, MaxSeedGrants)
    /\ \E parent \in Hierarchies : folder = FoldersOf(parent)

Init ==
    /\ InitGrants \/ InitHierarchy
    /\ f = NoFilter
    /\ heap = <<>>
    /\ out = NoOut
    /\ atc = NoCall

-----------------------------------------------------------------------------
(* Operations *)

\* NewAccessControlDashboardPermissionFilter(user, permissionLevel, queryType, features);
\* a filter is constructed once, for one request, and never built again
New(u, permissionLevel, queryType, nested) ==
    LET needEdit == permissionLevel > PermissionLevels.PERMISSION_VIEW
        folderActions == folderActionsFor(queryType, needEdit)
        dashboardActions == dashboardActionsFor(queryType, needEdit)
        built == buildClauses(u, dashboardActions, folderActions, nested, permission)
    IN /\ ~f.built
       /\ f' = [built |-> TRUE, user |-> u,
                dashboardActions |-> dashboardActions, folderActions |-> folderActions,
                nested |-> nested,
                where |-> built.where, recQueries |-> built.recQueries]
       /\ heap' = built.heap
       /\ out' = NoOut
       /\ UNCHANGED <<permission, folder, atc>>

Where ==
    /\ f.built
    /\ out' = [op |-> "Where"] @@ WhereOf(f)
    /\ UNCHANGED <<permission, folder, f, heap, atc>>

With ==
    /\ f.built
    /\ out' = [op |-> "With"] @@ WithOf(heap, f.recQueries)
    /\ UNCHANGED <<permission, folder, f, heap, atc>>

Next ==
    \/ \E u \in Users, level \in PermissionTypes, queryType \in QueryTypes,
          nested \in BOOLEAN : New(u, level, queryType, nested)
    \/ Where
    \/ With

Spec == Init /\ [][Next]_vars

-----------------------------------------------------------------------------
(* actionsToCheck on its own inputs *)

CheckedActions == {ActionDashboardsRead, ActionFoldersRead}
CheckedScopes == {"*", "folders:uid:*", "dashboards:uid:d1", "folders:uid:A"}

SeqsUpTo(S, n) == UNION {[1..k -> S] : k \in 0..n}

WildcardChoices ==
    {<<WildcardsFromPrefix(ScopeDashboardsPrefix)>>,
     <<WildcardsFromPrefix(ScopeFoldersPrefix)>>,
     <<WildcardsFromPrefix(ScopeDashboardsPrefix), WildcardsFromPrefix(ScopeFoldersPrefix)>>}

PermissionMaps ==
    UNION {[keys -> SeqsUpTo(CheckedScopes, MaxScopes)] : keys \in SUBSET CheckedActions}

InitActionsToCheck ==
    /\ permission = {}
    /\ folder = {}
    /\ f = NoFilter
    /\ heap = <<>>
    /\ out = NoOut
    /\ \E actions \in SeqsUpTo(CheckedActions, MaxActions),
          permissions \in PermissionMaps, wildcards \in WildcardChoices :
          atc = [called |-> FALSE, actions |-> actions, permissions |-> permissions,
                 wildcards |-> wildcards, result |-> <<>>]

CallActionsToCheck ==
    /\ ~atc.called
    /\ atc' = [atc EXCEPT !.called = TRUE,
                          !.result = actionsToCheck(atc.actions, atc.permissions, atc.wildcards)]
    /\ UNCHANGED <<permission, folder, f, heap, out>>

NextActionsToCheck == CallActionsToCheck

SpecActionsToCheck == InitActionsToCheck /\ [][NextActionsToCheck]_vars

-----------------------------------------------------------------------------
(* What the emitted SQL selects: placeholders are bound by position, and   *)
(* each subquery is read off the text it was written as                    *)

\* the parameter the placeholder at index i is bound to
BoundVal(c, i) ==
    LET n == Cardinality({k \in 1..i : c.string[k] = Ph})
    IN IF n \in 1..Len(c.params) THEN c.params[n] ELSE NilV

\* first index from i on that holds one of the tokens, 0 when there is none
IndexFrom(text, i, toks) ==
    LET S == {j \in {x \in i..Len(text) : x >= 1} : text[j] \in toks}
    IN IF S = {} THEN 0 ELSE CHOOSE j \in S : \A k \in S : j <= k

\* the values bound to the placeholders strictly between two indexes
ValsBetween(c, i, j) ==
    {BoundVal(c, k) : k \in {x \in (i + 1)..(j - 1) : c.string[x] = Ph}}

\* role_id IN (SELECT id FROM role INNER JOIN (...)): the roles the join keeps
RolesSelected(c, i) ==
    LET u == IndexFrom(c.string, i, {UserRoleSelect})
        end == IndexFrom(c.string, u, {RolesJoinEnd})
        t == IndexFrom(c.string, u, {TeamRoleSelect})
        userID == BoundVal(c, u + 1)
        userOrg == BoundVal(c, u + 3)
        tEnd == IndexFrom(c.string, t, {TeamRoleOrg})
        teams == IF t = 0 \/ t > end THEN {} ELSE ValsBetween(c, t, tEnd)
        teamOrg == BoundVal(c, tEnd + 1)
    IN {r.role_id : r \in {x \in user_role :
                              IntV(x.user_id) = userID /\ IntV(x.org_id) = userOrg}}
       \cup {r.role_id : r \in {x \in team_role :
                              IntV(x.team_id) \in teams /\ IntV(x.org_id) = teamOrg}}

\* substr(scope, start): the scope string from its start-th character on
Substr(sc, start) ==
    IF Len(sc.prefix) = start - 1 THEN sc.id
    ELSE IF sc.prefix = "" /\ start = 1 THEN sc.id
    ELSE "<cut>"

\* scope LIKE '<prefix>%'
Like(sc, prefix) == sc.prefix = prefix

SelectShape(head) ==
    IF head = DashSelectHead
    THEN [like |-> "dashboards:uid:", start |-> 16]
    ELSE [like |-> "folders:uid:", start |-> 13]

\* SELECT substr(scope, n) FROM permission WHERE scope LIKE ... AND role_id IN (...)
\* AND action ...: the identifiers the subquery starting at index i returns
ScopeSelect(c, i, perms) ==
    LET shape == SelectShape(c.string[i])
        roles == RolesSelected(c, i)
        a == IndexFrom(c.string, i, {ActionEquals, ActionIn})
        rows == {r \in perms : Like(r.scope, shape.like) /\ r.role_id \in roles}
    IN IF c.string[a] = ActionEquals
       THEN {Substr(r.scope, shape.start) :
                r \in {x \in rows : StrV(x.action) = BoundVal(c, a + 1)}}
       ELSE LET g == IndexFrom(c.string, a, {GroupHaving})
                acts == ValsBetween(c, a, g)
                cnt == BoundVal(c, g + 1)
                matched == {x \in rows : StrV(x.action) \in acts}
                group(r) == {x \in matched : x.role_id = r.role_id /\ x.scope = r.scope}
            IN {Substr(r.scope, shape.start) :
                   r \in {x \in matched : IntV(Cardinality(group(x))) = cnt}}

\* the action values a subquery compares against, and the count it requires
ScopeSelectActions(c, i) ==
    LET a == IndexFrom(c.string, i, {ActionEquals, ActionIn})
    IN IF c.string[a] = ActionEquals THEN {BoundVal(c, a + 1)}
       ELSE ValsBetween(c, a, IndexFrom(c.string, a, {GroupHaving}))

BaseMemberBug(seeds, folders) == {x \in folders : x.parent_uid \in seeds}

\* the base member: folders whose uid the seed subquery selects
BaseMember(seeds, folders) == {x \in folders : x.uid \in seeds}

ChildrenOfBug(rows, folders) ==
    {x \in folders : \E r \in rows : x.parent_uid = r.uid}

\* one round of the recursive member: folders whose parent is in the working table
ChildrenOf(rows, folders) ==
    {x \in folders : \E r \in rows : x.parent_uid = r.uid /\ x.org_id = r.org_id}

\* WITH RECURSIVE ... UNION ALL: rounds until the working table is empty
RECURSIVE Rounds(_, _, _, _)
Rounds(working, result, folders, fuel) ==
    IF working = {} THEN [rows |-> result, done |-> TRUE]
    ELSE IF fuel = 0 THEN [rows |-> result, done |-> FALSE]
    ELSE LET next == ChildrenOf(working, folders)
         IN Rounds(next, result \cup next, folders, fuel - 1)

\* the rows of the recursive query named name in the preamble w: the base
\* member, then the recursive member when the definition joins on itself
RecQueryRows(w, name, perms, folders) ==
    LET S == {j \in 1..(Len(w.string) - 1) :
                 w.string[j] = name /\ w.string[j + 1] = RecQueryBase}
        i == CHOOSE j \in S : TRUE
        seeds == ScopeSelect(w, i + 2, perms)
        base == BaseMember(seeds, folders)
        step == IndexFrom(w.string, i, {RecQueryStep})
        joins == /\ step # 0 /\ step + 2 <= Len(w.string)
                 /\ w.string[step + 1] = name /\ w.string[step + 2] = RecQueryJoin
    IN IF S = {} THEN [rows |-> {}, done |-> TRUE, defined |-> FALSE, seeds |-> {}]
       ELSE [defined |-> TRUE, seeds |-> seeds]
            @@ (IF joins THEN Rounds(base, base, folders, Cardinality(folders) + 1)
                ELSE [rows |-> base, done |-> TRUE])

\* index of the direct dashboard subquery in a where text, 0 when absent
DirectAt(wh) == IndexFrom(wh.string, 1, {DashSelectHead})
\* index of the inherited (containing folder) disjunct, 0 when absent
InheritedAt(wh) == IndexFrom(wh.string, 1, {InheritedHead})
\* index of the folder branch's membership test, 0 when absent
FolderAt(wh) == IndexFrom(wh.string, 1, {FolderBranchHead})

\* where the subquery of a membership test is written: in the where text at
\* index i, or in the preamble when index i names a recursive query
SubqueryAt(wh, wi, i) ==
    IF wh.string[i] \in {InheritedFrom, FolderFrom}
    THEN LET S == {j \in 1..(Len(wi.string) - 1) :
                      wi.string[j] = wh.string[i + 1] /\ wi.string[j + 1] = RecQueryBase}
         IN [c |-> wi, at |-> IF S = {} THEN 0 ELSE (CHOOSE j \in S : TRUE) + 2]
    ELSE [c |-> wh, at |-> i]

\* uids the subquery of the membership test at index i selects (the seeds)
SeedsAt(wh, wi, i) ==
    LET q == SubqueryAt(wh, wi, i)
    IN IF q.at = 0 THEN {} ELSE ScopeSelect(q.c, q.at, permission)

\* uids the membership test at index i (a subquery, or FROM <recursive query>) yields
MembersAt(wh, wi, i) ==
    IF wh.string[i] \in {InheritedFrom, FolderFrom}
    THEN {r.uid : r \in RecQueryRows(wi, wh.string[i + 1], permission, folder).rows}
    ELSE ScopeSelect(wh, i, permission)

\* index of the inherited disjunct's membership test
InheritedTestAt(wh) ==
    IF wh.string[InheritedAt(wh) + 1] = InheritedFrom
    THEN InheritedAt(wh) + 1 ELSE InheritedAt(wh) + 2

\* the clause Where() returns and the preamble With() returns
WhereClause == WhereOf(f)
WithClause == WithOf(heap, f.recQueries)

\* dashboard uids the direct subquery selects
DirectDashboards == ScopeSelect(WhereClause, DirectAt(WhereClause), permission)
\* folder uids whose dashboards the inherited disjunct selects
InheritedFolders == MembersAt(WhereClause, WithClause, InheritedTestAt(WhereClause))
\* folder uids the folder branch selects
FolderBranchFolders == MembersAt(WhereClause, WithClause, FolderAt(WhereClause) + 1)

-----------------------------------------------------------------------------
(* Properties *)

\* the user context is absent or lacks the permission index of its organization
NoIndexEntry(u) == u.isNil \/ ~u.hasPermissions \/ ~u.hasOrgEntry

\* C1: for a user that is absent, has no permission index, or has no index entry
\* for its organization, Where() returns "(1 = 0)" with no parameters, With()
\* returns empty text and no parameters, and no recursive query is created,
\* whatever the query type, the permission level and the nested-folder flag.
C1_DenyAll ==
    (f.built /\ NoIndexEntry(f.user)) =>
        /\ f.recQueries = <<>>
        /\ f.where.string = <<"(1 = 0)">> /\ f.where.params = <<>>
        /\ out.op = "Where" => (out.string = <<"(1 = 0)">> /\ out.params = <<>>)
        /\ out.op = "With" => (out.string = <<>> /\ out.params = <<>>)

C1_Witness ==
    /\ f.built /\ ~f.user.isNil /\ f.user.hasPermissions /\ ~f.user.hasOrgEntry
    /\ f.nested /\ Len(f.dashboardActions) = 2 /\ Len(f.folderActions) = 2
    /\ permission # {}
    /\ out.op = "Where"

\* the last index below i that holds neither a placeholder nor a list comma
ContextOf(text, i) ==
    LET S == {j \in 1..(i - 1) : text[j] \notin {Ph, ", "}}
    IN CHOOSE j \in S : \A k \in S : k <= j

\* the placeholder at index i is bound to the value its place in the text calls for
BoundAsWritten(c, i) ==
    LET j == ContextOf(c.string, i)
        tok == c.string[j]
        v == BoundVal(c, i)
        nth == CountPh(SubSeq(c.string, j, i))
    IN IF tok = UserRoleSelect THEN v = IntV(f.user.UserID)
       ELSE IF tok \in {UserRoleOrg, TeamRoleOrg} THEN v = IntV(f.user.OrgID)
       ELSE IF tok = TeamRoleSelect THEN v = IntV(f.user.Teams[nth])
       ELSE IF tok = ActionEquals THEN v.k = "str" /\ v.s \in Actions
       ELSE IF tok = ActionIn
       THEN /\ v.k = "str" /\ v.s \in Actions
            /\ \A m \in (j + 1)..(i - 1) : c.string[m] = Ph => BoundVal(c, m) # v
       ELSE IF tok = GroupHaving
       THEN v = IntV(Cardinality(ValsBetween(c,
                    CHOOSE a \in 1..j : c.string[a] = ActionIn
                        /\ \A b \in (a + 1)..j : c.string[b] # ActionIn, j)))
       ELSE FALSE

Paired(c) ==
    /\ CountPh(c.string) = Len(c.params)
    /\ \A i \in 1..Len(c.string) : c.string[i] = Ph => BoundAsWritten(c, i)

\* C2: after construction the Where() text has as many placeholders as Where()
\* has parameters, likewise for With(), and the Nth placeholder of each text
\* is bound to the value written for it (user, organization, teams, actions,
\* required count), in textual order.
C2_PlaceholdersMatchParams ==
    f.built => (Paired(WhereClause) /\ Paired(WithClause))

C2_Witness ==
    /\ f.built /\ f.nested /\ Len(f.recQueries) = 2
    /\ Len(f.user.Teams) > 0
    /\ \E i \in 1..Len(WhereClause.string) : WhereClause.string[i] = GroupHaving
    /\ \E i \in 1..Len(WithClause.string) : WithClause.string[i] = ActionEquals
    /\ out.op = "With" /\ out.params = WithClause.params /\ Len(out.params) > 6

\* the roles the user holds, directly or through a team
MyRoles == ApplicableRoles(f.user.UserID, f.user.OrgID, SeqToSet(f.user.Teams))

\* some role of the user is granted the action on the scope
Granted(a, sc) ==
    \E p \in permission : p.role_id \in MyRoles /\ p.action = a /\ p.scope = sc

DashboardWildcards == {"*", "dashboards:*", "dashboards:uid:*", "folders:*", "folders:uid:*"}
FolderWildcards == {"*", "folders:*", "folders:uid:*"}

\* the actions of a list that no wildcard grant of the user satisfies
Explicit(actions, wild) ==
    {a \in SeqToSet(actions) :
        ~\E p \in permission : Granted(a, p.scope) /\ ScopeString(p.scope) \in wild}

DashboardsToVerify == Explicit(f.dashboardActions, DashboardWildcards)
FoldersToVerify == Explicit(f.folderActions, FolderWildcards)

\* identifiers a grant can name
GrantIds == {p.scope.id : p \in GrantUniverse \cup SeedGrantUniverse}

\* the user's roles grant only a strict subset of the required actions on the scope
PartiallyGranted(req, sc) == \E a \in req : ~Granted(a, sc)

Compiled == f.built /\ ~NoIndexEntry(f.user)

\* C3: when two or more actions need explicit verification, an identifier on
\* which the user's roles grant only some of them is not selected by the
\* scope-membership subquery (direct dashboard subquery, folder subquery),
\* even though every required action is granted on some identifier.
C3_AndSemantics ==
    Compiled =>
      LET dashboards == DashboardsToVerify
          folders == FoldersToVerify
          selected == DirectDashboards
          seeds == SeedsAt(WhereClause, WithClause, FolderAt(WhereClause) + 1)
      IN /\ Cardinality(dashboards) >= 2 =>
               \A id \in GrantIds :
                   PartiallyGranted(dashboards, Scope(ScopeDashboardsPrefix, id))
                       => id \notin selected
         /\ Cardinality(folders) >= 2 =>
               \A id \in GrantIds :
                   PartiallyGranted(folders, Scope(ScopeFoldersPrefix, id))
                       => id \notin seeds

C3_Witness ==
    /\ Compiled
    /\ DashboardsToVerify = {ActionDashboardsRead, ActionDashboardsWrite}
    /\ Granted(ActionDashboardsRead, Scope(ScopeDashboardsPrefix, "d1"))
    /\ ~Granted(ActionDashboardsWrite, Scope(ScopeDashboardsPrefix, "d1"))
    /\ Granted(ActionDashboardsWrite, Scope(ScopeDashboardsPrefix, "d2"))
    /\ "d1" \notin DirectDashboards
    /\ out.op = "Where"

\* some granted scope of the action is one of the supplied wildcards
CoveredByWildcard(a) ==
    \E i \in 1..Len(MapGet(atc.permissions, a)) :
        \E w \in 1..Len(atc.wildcards) :
            \E j \in 1..Len(atc.wildcards[w]) :
                atc.wildcards[w][j] = atc.permissions[a][i]

\* C4: actionsToCheck returns, in input order, exactly the actions none of
\* whose granted scopes is contained by any supplied wildcard; an action
\* without granted scopes is always returned.
C4_ActionsToCheck ==
    atc.called =>
        LET kept(a) == ~CoveredByWildcard(a)
            expected == SelectSeq(atc.actions, kept)
        IN /\ Len(atc.result) = Len(expected)
           /\ \A i \in 1..Len(expected) : atc.result[i] = StrV(expected[i])
           /\ \A i \in 1..Len(atc.actions) :
                 MapGet(atc.permissions, atc.actions[i]) = <<>>
                     => StrV(atc.actions[i]) \in SeqToSet(atc.result)

C4_Witness ==
    /\ atc.called
    /\ atc.actions = <<ActionDashboardsRead, ActionFoldersRead>>
    /\ ActionFoldersRead \notin DOMAIN atc.permissions
    /\ MapGet(atc.permissions, ActionDashboardsRead) = <<"dashboards:uid:d1", "folders:uid:*">>
    /\ Len(atc.wildcards) = 2
    /\ atc.result = <<StrV(ActionFoldersRead)>>

\* placeholders of the role resolver's fragment for the user of the filter
ResolverPlaceholders ==
    CountPh(UserRolesFilter(f.user.OrgID, f.user.UserID, f.user.Teams).filter)

\* placeholders binding k actions: one for a single action, else k and the count
ActionPlaceholders(k) == IF k = 1 THEN 1 ELSE k + 1

\* last index of the dashboard branch in the where text, 0 when it is absent
DashboardBranchEndAt ==
    LET S == {j \in 1..Len(WhereClause.string) :
                 WhereClause.string[j] \in {DashBranchEnd, "NOT dashboard.is_folder"}}
    IN IF S = {} THEN 0 ELSE CHOOSE j \in S : \A k \in S : k <= j

\* the text a recursive query named in the where text at index i is defined by
DefinitionAt(i) ==
    LET S == {n \in 1..Len(f.recQueries) :
                 f.recQueries[n].string[1] = WhereClause.string[i]}
    IN IF S = {} THEN <<>> ELSE f.recQueries[CHOOSE n \in S : TRUE].string

\* placeholders of the dashboard branch: its where text and its recursive query
DashboardBranchPlaceholders ==
    CountPh(SubSeq(WhereClause.string, 1, DashboardBranchEndAt))
    + (IF InheritedAt(WhereClause) # 0
          /\ WhereClause.string[InheritedAt(WhereClause) + 1] = InheritedFrom
       THEN CountPh(DefinitionAt(InheritedAt(WhereClause) + 2)) ELSE 0)

\* placeholders of the folder branch: its where text and its recursive query
FolderBranchPlaceholders ==
    CountPh(SubSeq(WhereClause.string, DashboardBranchEndAt + 1, Len(WhereClause.string)))
    + (IF FolderAt(WhereClause) # 0
          /\ WhereClause.string[FolderAt(WhereClause) + 1] = FolderFrom
       THEN CountPh(DefinitionAt(FolderAt(WhereClause) + 2)) ELSE 0)

\* placeholders of the subquery a membership test at index i of the where text uses
SubqueryPlaceholders(i) ==
    LET q == SubqueryAt(WhereClause, WithClause, i)
        end == IndexFrom(q.c.string, q.at, {DashBranchEnd, ")"})
    IN CountPh(SubSeq(q.c.string, q.at, end))

\* C5 as stated: each branch with k actions to verify contributes the role
\* resolver's placeholders plus 1 (k = 1) or k + 1 (k > 1) placeholders.
C5_AsStated ==
    Compiled =>
      /\ Cardinality(DashboardsToVerify) >= 1 =>
            DashboardBranchPlaceholders
                = ResolverPlaceholders + ActionPlaceholders(Cardinality(DashboardsToVerify))
      /\ Cardinality(FoldersToVerify) >= 1 =>
            FolderBranchPlaceholders
                = ResolverPlaceholders + ActionPlaceholders(Cardinality(FoldersToVerify))

\* C5 (amended): every scope-membership subquery over k actions to verify holds
\* the role resolver's placeholders plus 1 (k = 1) or k + 1 (k > 1); the folder
\* branch emits one such subquery and the dashboard branch two (the direct one
\* and the containing-folder one), so the dashboard branch contributes twice
\* that number, in the where text or in its recursive query.
C5_PlaceholdersPerSubquery ==
    Compiled =>
      /\ Cardinality(DashboardsToVerify) >= 1 =>
            LET n == ResolverPlaceholders + ActionPlaceholders(Cardinality(DashboardsToVerify))
            IN /\ SubqueryPlaceholders(DirectAt(WhereClause)) = n
               /\ SubqueryPlaceholders(InheritedTestAt(WhereClause)) = n
               /\ DashboardBranchPlaceholders = n + n
      /\ Cardinality(FoldersToVerify) >= 1 =>
            LET n == ResolverPlaceholders + ActionPlaceholders(Cardinality(FoldersToVerify))
            IN /\ SubqueryPlaceholders(FolderAt(WhereClause) + 1) = n
               /\ FolderBranchPlaceholders = n

C5_Witness ==
    /\ Compiled /\ f.nested /\ Len(f.user.Teams) > 0
    /\ Cardinality(DashboardsToVerify) = 2
    /\ Cardinality(FoldersToVerify) = 1 /\ Len(f.folderActions) = 2
    /\ DashboardBranchPlaceholders = 14
    /\ FolderBranchPlaceholders = 5
    /\ out.op = "Where" /\ Len(out.params) = 7

\* C6: With() returns empty text and no parameters when no recursive query was
\* created; otherwise one "WITH RECURSIVE" followed by every definition once,
\* joined by commas in creation order, with the definitions' parameters
\* concatenated in that order; there are at most two definitions, named
\* RecQry0 and RecQry1 in creation order.
C6_With ==
    (f.built /\ out.op = "With") =>
        LET n == Len(f.recQueries)
            names == <<"RecQry0", "RecQry1">>
            params(i) == SliceVals(heap, f.recQueries[i].params)
        IN /\ n <= maximumRecursiveQueries
           /\ \A i \in 1..n : f.recQueries[i].string[1] = names[i]
           /\ n = 0 => (out.string = <<>> /\ out.params = <<>>)
           /\ n = 1 => /\ out.string = <<"WITH RECURSIVE ">> \o f.recQueries[1].string
                       /\ out.params = params(1)
           /\ n = 2 => /\ out.string = <<"WITH RECURSIVE ">> \o f.recQueries[1].string
                                       \o <<",">> \o f.recQueries[2].string
                       /\ out.params = params(1) \o params(2)
           /\ Cardinality({i \in 1..Len(out.string) : out.string[i] = "WITH RECURSIVE "})
                 = (IF n = 0 THEN 0 ELSE 1)
           /\ Cardinality({i \in 1..Len(out.string) : out.string[i] = RecQueryBase}) = n

C6_Witness ==
    /\ f.built /\ out.op = "With" /\ Len(f.recQueries) = 2
    /\ f.recQueries[1].params.len # f.recQueries[2].params.len
    /\ Len(out.params) = f.recQueries[1].params.len + f.recQueries[2].params.len
    /\ \E i \in 1..Len(out.string) : out.string[i] = ","

\* the folder a row names as its parent, in the row's organization
ParentsOf(x) == {p \in folder : p.uid = x.parent_uid /\ p.org_id = x.org_id}

\* some folder up the parent chain of x is in S
RECURSIVE HasAncestorIn(_, _, _)
HasAncestorIn(x, S, fuel) ==
    /\ fuel > 0
    /\ \E p \in ParentsOf(x) : p \in S \/ HasAncestorIn(p, S, fuel - 1)

\* the seed folders and their transitive descendants
SeedsAndDescendants(seeds) ==
    LET S == {x \in folder : x.uid \in seeds}
    IN {x \in folder : x \in S \/ HasAncestorIn(x, S, Cardinality(folder))}

\* the recursive queries of the preamble, by name
DefinedQueries ==
    {f.recQueries[n].string[1] : n \in 1..Len(f.recQueries)}

\* C7: on an acyclic folder hierarchy every recursive query of the preamble
\* terminates and yields exactly the seed folders and their transitive
\* descendants within the same organization, never an ancestor that is not a
\* seed or a descendant of one; with C under B under A, seed {A} yields
\* {A, B, C} and seed {B} yields {B, C} without A.
C7_Closure ==
    f.built =>
        \A name \in DefinedQueries :
            LET r == RecQueryRows(WithClause, name, permission, folder)
                uids == {x.uid : x \in r.rows}
            IN /\ r.defined /\ r.done
               /\ r.rows = SeedsAndDescendants(r.seeds)
               /\ (folder = FoldersOf(Chain) /\ r.seeds = {"A"}) => uids = {"A", "B", "C"}
               /\ (folder = FoldersOf(Chain) /\ r.seeds = {"B"}) => uids = {"B", "C"}

C7_Witness ==
    /\ f.built /\ Len(f.recQueries) = 1
    /\ folder = FoldersOf(Chain)
    /\ LET r == RecQueryRows(WithClause, "RecQry0", permission, folder)
       IN r.seeds = {"B"} /\ {x.uid : x \in r.rows} = {"B", "C"}
    /\ out.op = "With"

\* uids of the folders in the folder table
AllFolderUIDs == {x.uid : x \in folder}

\* folders that qualify under the folder branch of a compilation
QualifyingFolders(built) ==
    LET wh == built.where
        wi == WithOf(built.heap, built.recQueries)
    IN IF FolderAt(wh) = 0 THEN {}
       ELSE AllFolderUIDs \cap MembersAt(wh, wi, FolderAt(wh) + 1)

\* the compilation of the same request with the nested-folder flag as given
Compilation(nested) ==
    buildClauses(f.user, f.dashboardActions, f.folderActions, nested, permission)

NoGrandchildren ==
    \A x \in folder : \A p \in ParentsOf(x) : p.parent_uid = NoParent

NoSubfolders == \A x \in folder : x.parent_uid = NoParent

\* C8 as stated: when no folder has a grandchild, the folder branch qualifies the
\* same folders with and without the nested-folder flag.
C8_AsStated ==
    (Compiled /\ FoldersToVerify # {} /\ NoGrandchildren) =>
        QualifyingFolders(Compilation(TRUE)) = QualifyingFolders(Compilation(FALSE))

\* C8 (amended): when no folder has a parent folder, the folder branch
\* qualifies the same folders with and without the nested-folder flag: the
\* flag changes the mechanism (subquery in the where text, or recursive query
\* in the preamble) and not the set.
C8_FlagKeepsFlatFolders ==
    (Compiled /\ FoldersToVerify # {} /\ NoSubfolders) =>
        /\ QualifyingFolders(Compilation(TRUE)) = QualifyingFolders(Compilation(FALSE))
        /\ QualifyingFolders(Compilation(f.nested)) = AllFolderUIDs \cap FolderBranchFolders
        /\ Len(Compilation(TRUE).recQueries) > Len(Compilation(FALSE).recQueries)

C8_Witness ==
    /\ Compiled /\ f.nested /\ FoldersToVerify # {} /\ NoSubfolders
    /\ FolderBranchFolders = {"B"}
    /\ QualifyingFolders(Compilation(FALSE)) = {"B"}
    /\ out.op = "With"

\* the subquery of the inherited (containing folder) disjunct
InheritedSubquery == SubqueryAt(WhereClause, WithClause, InheritedTestAt(WhereClause))

\* folder ids on which the user's roles grant one of the actions
FolderIdsGranted(actions) ==
    {p.scope.id : p \in {x \in permission :
        /\ x.scope.prefix = ScopeFoldersPrefix
        /\ x.action \in actions
        /\ x.role_id \in MyRoles}}

\* C9 as stated: the inherited disjunct of the dashboard branch tests the
\* containing folder against the scope-membership subquery applied to the
\* folder actions of the query type and level.
C9_AsStated ==
    (Compiled /\ InheritedAt(WhereClause) # 0) =>
        ScopeSelectActions(InheritedSubquery.c, InheritedSubquery.at)
            = {StrV(a) : a \in FoldersToVerify}

\* C9 (amended): the inherited disjunct of the dashboard branch tests the
\* containing folder against the scope-membership subquery over folder scopes
\* applied to the dashboard actions that need explicit verification, expanded
\* through the recursive query when nested folders are enabled.
C9_InheritedFromFolder ==
    (Compiled /\ DashboardsToVerify # {}) =>
        LET q == InheritedSubquery
            seeds == SeedsAt(WhereClause, WithClause, InheritedTestAt(WhereClause))
        IN /\ InheritedAt(WhereClause) # 0 /\ q.at # 0
           /\ ScopeSelectActions(q.c, q.at) = {StrV(a) : a \in DashboardsToVerify}
           /\ seeds \subseteq FolderIdsGranted(DashboardsToVerify)
           /\ Cardinality(DashboardsToVerify) = 1 =>
                 seeds = FolderIdsGranted(DashboardsToVerify)
           /\ InheritedFolders =
                 IF f.nested THEN {x.uid : x \in SeedsAndDescendants(seeds)} ELSE seeds

C9_Witness ==
    /\ Compiled /\ f.nested /\ f.folderActions = <<>>
    /\ DashboardsToVerify = {ActionDashboardsRead, ActionDashboardsWrite}
    /\ Granted(ActionDashboardsRead, Scope(ScopeFoldersPrefix, "A"))
    /\ Granted(ActionDashboardsWrite, Scope(ScopeFoldersPrefix, "A"))
    /\ InheritedFolders = {"A", "B", "C"}
    /\ out.op = "Where"

\* the actions of a list that need explicit verification, in the list's order
RECURSIVE ToVerifyInOrder(_, _)
ToVerifyInOrder(actions, keep) ==
    IF actions = <<>> THEN <<>>
    ELSE (IF Head(actions) \in keep THEN <<StrV(Head(actions))>> ELSE <<>>)
         \o ToVerifyInOrder(Tail(actions), keep)

\* the parameters of one scope-membership subquery: the role resolver's, the
\* actions to verify, and their number when there are several
SubqueryParams(actions, keep) ==
    UserRolesFilter(f.user.OrgID, f.user.UserID, f.user.Teams).params
    \o ToVerifyInOrder(actions, keep)
    \o (IF Cardinality(keep) > 1 THEN <<IntV(Cardinality(keep))>> ELSE <<>>)

\* C10: the parameters of a recursive query are a copy taken when it is
\* created: after a compilation that creates the dashboard branch's query
\* (RecQry0) and then refills the scratch buffer for the folder branch, the
\* parameters of RecQry0 are still the role resolver's parameters followed by
\* the dashboard actions to verify (and their count when several), and the
\* Where() parameters appended before the reset are unchanged.
C10_CapturedParams ==
    (Compiled /\ f.nested /\ DashboardsToVerify # {}) =>
        LET expected == SubqueryParams(f.dashboardActions, DashboardsToVerify)
        IN /\ Len(f.recQueries) >= 1
           /\ f.recQueries[1].string[1] = "RecQry0"
           /\ SliceVals(heap, f.recQueries[1].params) = expected
           /\ SubSeq(f.where.params, 1, Len(expected)) = expected
           /\ out.op = "With" =>
                 SubSeq(out.params, 1, Len(expected)) = expected

\* the folder branch refilled the scratch array the dashboard branch had filled
ScratchRefilled ==
    LET mine == SliceVals(heap, f.recQueries[1].params)
        p == ResolverPlaceholders
    IN \E a \in 1..Len(heap) :
          /\ a # f.recQueries[1].params.arr
          /\ Len(heap[a]) >= Len(mine)
          /\ SubSeq(heap[a], 1, p) = SubSeq(mine, 1, p)
          /\ heap[a][p + 1] = StrV(f.folderActions[1])
          /\ heap[a][p + 1] # mine[p + 1]

C10_Witness ==
    /\ Compiled /\ f.nested /\ Len(f.recQueries) = 2
    /\ Cardinality(DashboardsToVerify) = 2 /\ FoldersToVerify # {}
    /\ ScratchRefilled
    /\ out.op = "With"

\* every action of the set is granted on the scope by some role of the user
FullyGranted(req, sc) == \A a \in req : Granted(a, sc)

\* C11: when two or more actions need explicit verification, every identifier
\* on whose scope the user's applicable roles grant each of those actions is
\* selected by the scope-membership subquery (the direct dashboard subquery
\* and the folder subquery), whichever roles hold the individual grants.
C11_AsStated ==
    Compiled =>
      LET dashboards == DashboardsToVerify
          folders == FoldersToVerify
          selected == DirectDashboards
          seeds == SeedsAt(WhereClause, WithClause, FolderAt(WhereClause) + 1)
      IN /\ Cardinality(dashboards) >= 2 =>
               \A id \in GrantIds :
                   FullyGranted(dashboards, Scope(ScopeDashboardsPrefix, id))
                       => id \in selected
         /\ Cardinality(folders) >= 2 =>
               \A id \in GrantIds :
                   FullyGranted(folders, Scope(ScopeFoldersPrefix, id))
                       => id \in seeds

====
